---- MODULE Spec2Model ----
(***************************************************************************)
(* KB-Embedding: the streaming batch-embedding pipeline.                   *)
(*                                                                         *)
(*   processFile / processBatch / fetchBatchEmbeddings / startProcessing   *)
(*       of app/src/App.jsx (the browser pipeline), and                    *)
(*   the main loop / fetchEmbedding of scripts/embed_jsonl.js (the CLI).   *)
(*                                                                         *)
(* A JavaScript string is a sequence of tokens (<<>> is the empty string,  *)
(* the only falsy one).  A line of the file is [pos, fmt, val]: pos is its *)
(* position in the file (the identity of the line and of the record parsed *)
(* from it), fmt tells whether its text is what JSON.stringify would write *)
(* ("compact") or not ("spaced"), val is the JSON value it holds.          *)
(***************************************************************************)
EXTENDS Integers, Sequences, FiniteSets, TLC

BATCH_SIZE == 8

\* Bounds of the model.
MaxLines == 9
MaxSpecial == 1
MaxShortLines == 3
MaxShortSpecial == 2
MaxFail == 1
MaxCliLines == 4
MaxEmb == 20
MaxIdemLines == 3
MaxGenerations == 2
MaxFieldLen == 2
MaxCallers == 2
MaxEmbedCalls == 2
MaxTexts == 2
MaxContent == 4
MaxFiles == 2
MaxTasks == 2

(***************************************************************************)
(* JSON values                                                             *)
(***************************************************************************)
Undefined == [type |-> "undefined", items |-> <<>>]
EmptyArray == [type |-> "array", items |-> <<>>]
NonArray == [type |-> "string", items |-> <<>>]
\* The vector the provider returns for the text at index k of its call c
\* (c = 0: a vector the input file already carried).
Vec(c, k) == [type |-> "array", items |-> <<c, k>>]

Obj(dc, q, a, t, e) ==
    [kind |-> "object", dense_context |-> dc, question |-> q, answer |-> a,
     text |-> t, embedding |-> e]
NoFields(kind) ==
    [kind |-> kind, dense_context |-> <<>>, question |-> <<>>, answer |-> <<>>,
     text |-> <<>>, embedding |-> Undefined]
JNull == NoFields("null")
NotJson == NoFields("invalid")
Blank == NoFields("blank")

Line(pos, fmt, val) == [pos |-> pos, fmt |-> fmt, val |-> val]

\* JSON.parse: the text's formatting is lost, the value is kept.
JSONparseThrows(line) == line.val.kind = "invalid"
JSONparse(line) == [pos |-> line.pos, val |-> line.val]
\* JSON.stringify: always the compact text of the value.
JSONstringify(record) == Line(record.pos, "compact", record.val)

Truthy(s) == s # <<>>

\* A string of n tokens tok.
Str(tok, n) == [i \in 1..n |-> tok]

\* App.jsx getEmbeddingText: reads a property of record, so null throws.
GetEmbeddingTextThrows(record) == record.val.kind = "null"
QAText(q, a) == <<"Q: ">> \o q \o <<"\n", "A: ">> \o a
GetEmbeddingText(record) ==
    IF Truthy(record.val.dense_context) THEN record.val.dense_context
    ELSE IF Truthy(record.val.question) /\ Truthy(record.val.answer)
         THEN QAText(record.val.question, record.val.answer)
    ELSE record.val.text

\* embed_jsonl.js getEmbeddingText: guards null and non-objects.
CliGetEmbeddingText(record) ==
    IF record.val.kind # "object" THEN <<>>
    ELSE IF Truthy(record.val.dense_context) THEN record.val.dense_context
    ELSE IF Truthy(record.val.question) /\ Truthy(record.val.answer)
         THEN QAText(record.val.question, record.val.answer)
    ELSE record.val.text

\* record.embedding && Array.isArray(record.embedding) && record.embedding.length > 0
HasEmbedding(record) ==
    /\ record.val.embedding.type # "undefined"
    /\ record.val.embedding.type = "array"
    /\ Len(record.val.embedding.items) > 0

ClassifyAnyEmbedding(record, textToEmbed) ==
    IF record.val.embedding.type # "undefined" THEN "embedded"
    ELSE IF ~Truthy(textToEmbed) THEN "notext"
    ELSE "batch"

ClassifyNoResume(record, textToEmbed) ==
    IF ~Truthy(textToEmbed) THEN "notext" ELSE "batch"

\* processFile: what becomes of a parsed record.
Classify(record, textToEmbed) ==
    IF HasEmbedding(record) THEN "embedded"
    ELSE IF ~Truthy(textToEmbed) THEN "notext"
    ELSE "batch"

\* embed_jsonl.js: what becomes of a parsed record (the text is looked at first).
CliClassify(record, textToEmbed) ==
    IF ~Truthy(textToEmbed) THEN "skip"
    ELSE IF HasEmbedding(record) THEN "embedded"
    ELSE "fetch"

BatchFullOffByOne(b) == Len(b) > BATCH_SIZE

\* if (batch.length >= BATCH_SIZE)
BatchFull(b) == Len(b) >= BATCH_SIZE

OnLineErrorDropsLine(buffer, l) == buffer

\* The catch of the loop body: processedLines.push(line).
OnLineError(buffer, l) == Append(buffer, l)

\* t.replace(/\n/g, ' ')
CleanText(t) == [i \in 1..Len(t) |-> IF t[i] = "\n" THEN " " ELSE t[i]]

(***************************************************************************)
(* Input files                                                             *)
(***************************************************************************)
PlainVal == Obj(<<>>, <<>>, <<>>, <<"t">>, Undefined)

\* The lines the loop of processFile handles differently from a record to
\* embed: a blank line, an unparseable line, a record without text, a record
\* that carries its embedding.
FlowVals ==
    { [fmt |-> "compact", val |-> Blank],
      [fmt |-> "spaced", val |-> NotJson],
      [fmt |-> "spaced", val |-> Obj(<<>>, <<>>, <<>>, <<>>, Undefined)],
      [fmt |-> "spaced", val |-> Obj(<<>>, <<>>, <<>>, <<"t">>, Vec(0, 1))] }

SpecialVals ==
    FlowVals \cup
    { [fmt |-> "compact", val |-> JNull],
      [fmt |-> "compact", val |-> Obj(<<>>, <<>>, <<>>, <<>>, Vec(0, 1))],
      [fmt |-> "spaced", val |-> Obj(<<>>, <<>>, <<>>, <<"t">>, EmptyArray)],
      [fmt |-> "compact", val |-> Obj(<<>>, <<"q">>, <<"a">>, <<>>, NonArray)] }

\* The file of n lines whose lines are plain except at the positions of sp.
BuildFile(n, sp) ==
    [i \in 1..n |->
        IF i \in DOMAIN sp THEN Line(i, sp[i].fmt, sp[i].val)
        ELSE Line(i, "compact", PlainVal)]

\* The files of at most maxLines lines, at most maxSpecial of them not plain
\* and taken from vals.
InputFilesOf(maxLines, maxSpecial, vals) ==
    UNION { UNION { { BuildFile(n, sp) : sp \in [S -> vals] } :
                    S \in { T \in SUBSET (1..n) : Cardinality(T) <= maxSpecial } } :
            n \in 0..maxLines }

\* Long files (more than one batch) and short files (more kinds of line).
InputFiles ==
    InputFilesOf(MaxLines, MaxSpecial, FlowVals) \cup
    InputFilesOf(MaxShortLines, MaxShortSpecial, SpecialVals)
CliInputFiles == InputFilesOf(MaxCliLines, MaxSpecial, SpecialVals)
PlainFiles == InputFilesOf(MaxEmb, 0, {})

\* new TextEncoder().encode(line + '\n').length
LineBytes(line) ==
    (IF line.val.kind = "blank" THEN 1
     ELSE IF line.fmt = "spaced" THEN 4 ELSE 3) + 1

RECURSIVE SumBytes(_)
SumBytes(lines) ==
    IF lines = <<>> THEN 0 ELSE LineBytes(Head(lines)) + SumBytes(Tail(lines))

\* file.size
FileSize(lines) == SumBytes(lines)

\* lineIterator: the lines of the file whose trim() is not empty, in order.
LineIterator(lines) == SelectSeq(lines, LAMBDA l : l.val.kind # "blank")

(***************************************************************************)
(* The embedding provider (remote HTTP service)                            *)
(***************************************************************************)
\* What the provider may answer to its call number c carrying n texts: a body
\* with n vectors, a body with one vector too few, a non-2xx status, a body
\* without a data array, or no answer at all (network error).
ProviderResponses(c, n, mayFail) ==
    { [kind |-> "vectors", vectors |-> [k \in 1..n |-> Vec(c, k)]] } \cup
    IF mayFail
    THEN { [kind |-> "vectors", vectors |-> [k \in 1..(n - 1) |-> Vec(c, k)]],
           [kind |-> "http", vectors |-> <<>>],
           [kind |-> "format", vectors |-> <<>>],
           [kind |-> "network", vectors |-> <<>>] }
    ELSE {}

ResponseFails(resp, n) == resp.kind # "vectors" \/ Len(resp.vectors) # n

\* fetchBatchEmbeddings: the vectors of data.data, or a throw.
FetchBatchEmbeddings(resp) ==
    CASE resp.kind = "network" ->
            [threw |-> TRUE, message |-> "Failed to fetch", value |-> <<>>]
      [] resp.kind = "http" ->
            [threw |-> TRUE, message |-> "API Error 500", value |-> <<>>]
      [] resp.kind = "format" ->
            [threw |-> TRUE, message |-> "Unexpected response format", value |-> <<>>]
      [] OTHER ->
            [threw |-> FALSE, message |-> "", value |-> resp.vectors]

SetEmbedding(record, v) == [record EXCEPT !.val.embedding = v]

ProcessBatchNoCountCheck(texts, records, outputBuffer, resp) ==
    LET fetched == FetchBatchEmbeddings(resp)
        embeddings == fetched.value
        m == IF Len(embeddings) < Len(records) THEN Len(embeddings)
             ELSE Len(records)
        embedded == [k \in 1..Len(records) |->
                        IF k <= m THEN SetEmbedding(records[k], embeddings[k])
                        ELSE records[k]]
    IN  IF fetched.threw
        THEN [threw |-> TRUE, message |-> fetched.message,
              records |-> records, outputBuffer |-> outputBuffer]
        ELSE [threw |-> FALSE, message |-> "",
              records |-> embedded,
              outputBuffer |-> outputBuffer \o
                  [k \in 1..Len(embedded) |-> JSONstringify(embedded[k])]]

\* processBatch: throws before touching anything, or gives every record its
\* vector and appends the records to the output buffer in batch order.
ProcessBatch(texts, records, outputBuffer, resp) ==
    LET fetched == FetchBatchEmbeddings(resp)
        embeddings == fetched.value
    IN  IF fetched.threw
        THEN [threw |-> TRUE, message |-> fetched.message,
              records |-> records, outputBuffer |-> outputBuffer]
        ELSE IF Len(embeddings) # Len(records)
        THEN [threw |-> TRUE,
              message |-> "Embedding service returned an unexpected payload",
              records |-> records, outputBuffer |-> outputBuffer]
        ELSE LET embedded == [k \in 1..Len(records) |->
                                 SetEmbedding(records[k], embeddings[k])]
             IN  [threw |-> FALSE, message |-> "",
                  records |-> embedded,
                  outputBuffer |-> outputBuffer \o
                      [k \in 1..Len(embedded) |-> JSONstringify(embedded[k])]]

(***************************************************************************)
(* State                                                                   *)
(***************************************************************************)
VARIABLES
    program,         \* "app": the React pipeline; "cli": scripts/embed_jsonl.js;
                     \* "text": getEmbeddingText alone; "embedder": localEmbedder.js;
                     \* "cliEmbedder": the transformers provider of embed_jsonl.js
    fileContent,     \* the lines of the input file
    generation,      \* 1 for a given file, n + 1 for the output of a run on generation n
    prevOutput,      \* the output fed back as the input file (generation > 1)
    fileItem,        \* the file's entry of the files state (App.jsx addFiles)
    isProcessing,    \* App.jsx isProcessing
    pc,              \* where the run stands: idle, read, awaitBatch, awaitFinal, finished
    lineIdx,         \* lines the line iterator has yielded so far
    line,            \* the line the loop body is handling
    processedBytes,  \* processFile locals
    processedLines,
    batch,
    batchRecords,
    processedCount,
    calls,           \* the provider calls of the current run, in order
    failBudget,      \* provider failures still allowed
    lastBatch,       \* the last processBatch invocation: its arguments and result
    outputStream,    \* embed_jsonl.js: the lines written to the output file
    errorCount,
    skippedCount,
    textCall,        \* a call of getEmbeddingText: its argument and what came of it
    cachedPipelines, \* localEmbedder.js cachedPipelines: model id -> promise
    transformerPipelinePromise,  \* embed_jsonl.js: null (0) or the promise
    pipelineLoads,   \* the promises of a model load, in order of creation
    embedCalls,      \* the calls of embedTextsLocally / fetchEmbedding under way
    lineIter,        \* lineIterator on its own: the stream, its reader and its locals
    files,           \* App.jsx files: the entries of the file list
    tasks,           \* the invocations of startProcessing under way
    nextId           \* files added so far, plus one

vars == <<program, fileContent, generation, prevOutput, fileItem, isProcessing, pc, lineIdx, line,
          processedBytes, processedLines, batch, batchRecords, processedCount,
          calls, failBudget, lastBatch, outputStream, errorCount, skippedCount,
          textCall, cachedPipelines, transformerPipelinePromise, pipelineLoads,
          embedCalls, lineIter, files, tasks, nextId>>

inputVars == <<program, fileContent, generation, prevOutput>>
appLocals == <<lineIdx, line, processedBytes, processedLines, batch,
               batchRecords, processedCount>>
cliVars == <<outputStream, errorCount, skippedCount>>
embedderVars == <<cachedPipelines, transformerPipelinePromise, pipelineLoads,
                  embedCalls>>
queueVars == <<files, tasks, nextId>>
textVars == <<textCall, lineIter, queueVars>>
libVars == <<textVars, embedderVars>>

NullUrl == [set |-> FALSE, lines |-> <<>>]
\* URL.createObjectURL(new Blob([processedLines.join('\n')]))
ObjectUrl(lines) == [set |-> TRUE, lines |-> lines]

NoLine == Line(0, "compact", Blank)
NoBatch ==
    [called |-> FALSE, final |-> FALSE, records |-> <<>>, outputBuffer |-> <<>>,
     resp |-> [kind |-> "none", vectors |-> <<>>],
     result |-> [threw |-> FALSE, message |-> "", records |-> <<>>,
                 outputBuffer |-> <<>>]]

\* addFiles: the entry of a newly added file.
NewFileItem ==
    [status |-> "pending", progress |-> 0, total |-> 0, processed |-> 0,
     resultUrl |-> NullUrl, error |-> "null"]

\* No call of getEmbeddingText yet.
NoResult == [threw |-> FALSE, value |-> <<>>]
NoTextCall ==
    [called |-> FALSE, record |-> [pos |-> 0, val |-> Blank],
     app |-> NoResult, cli |-> NoResult, after |-> [pos |-> 0, val |-> Blank]]

\* const TRANSFORMER_MODEL = process.env.TRANSFORMER_MODEL || 'Xenova/all-MiniLM-L6-v2'
TRANSFORMER_MODEL == "Xenova/all-MiniLM-L6-v2"
\* The model identifiers a caller of embedTextsLocally may pass.
ModelIds == {TRANSFORMER_MODEL, "Xenova/bge-small-en-v1.5"}

Callers == 1..MaxCallers

\* A caller that has not called yet.
NoEmbedCall ==
    [pc |-> "idle", n |-> 0, isArray |-> TRUE, texts |-> <<>>, modelId |-> "",
     promise |-> 0, i |-> 0, embeddings |-> <<>>, result |-> <<>>,
     isNull |-> FALSE, failed |-> FALSE, found |-> FALSE]

\* Nothing of the libraries has run: no call of getEmbeddingText, an empty
\* cachedPipelines map, transformerPipelinePromise null.
EmbedderIdle ==
    /\ cachedPipelines = [m \in ModelIds |-> 0]
    /\ transformerPipelinePromise = 0
    /\ pipelineLoads = <<>>
    /\ embedCalls = [c \in Callers |-> NoEmbedCall]

\* lineIterator not called.
NoLineIter ==
    [pc |-> "idle", content |-> <<>>, pos |-> 0, reads |-> 0, chunk |-> <<>>,
     hasChunk |-> FALSE, readerDone |-> FALSE, pending |-> <<>>,
     buffer |-> <<>>, yielded |-> <<>>]

\* useState([]): no file in the list, startProcessing not invoked.
QueueIdle ==
    /\ files = <<>>
    /\ tasks = <<>>
    /\ nextId = 1

LibIdle ==
    /\ textCall = NoTextCall
    /\ EmbedderIdle
    /\ lineIter = NoLineIter
    /\ QueueIdle

\* The pipelines before any run, on one of the given files.
InitMain(programs, contents, budget) ==
    /\ program \in programs
    /\ fileContent \in contents
    /\ failBudget = budget
    /\ generation = 1
    /\ prevOutput = <<>>
    /\ fileItem = NewFileItem
    /\ isProcessing = FALSE
    /\ pc = "idle"
    /\ lineIdx = 0
    /\ line = NoLine
    /\ processedBytes = 0
    /\ processedLines = <<>>
    /\ batch = <<>>
    /\ batchRecords = <<>>
    /\ processedCount = 0
    /\ calls = <<>>
    /\ lastBatch = NoBatch
    /\ outputStream = <<>>
    /\ errorCount = 0
    /\ skippedCount = 0

InitWith(programs, contents, budget) ==
    /\ InitMain(programs, contents, budget)
    /\ LibIdle

Init ==
    \/ InitWith({"app"}, InputFiles, MaxFail)
    \/ InitWith({"cli"}, CliInputFiles, MaxFail)

(***************************************************************************)
(* App.jsx                                                                 *)
(***************************************************************************)
\* updateFileStatus: only the given fields of the entry change.
UpdateFileStatus(updates) ==
    fileItem' = [f \in DOMAIN fileItem |->
                    IF f \in DOMAIN updates THEN updates[f] ELSE fileItem[f]]

ProgressUncapped(bytes, totalSize) ==
    (200 * bytes + totalSize) \div (2 * totalSize)

\* Math.min(99, Math.round((processedBytes / totalSize) * 100))
Progress(bytes, totalSize) ==
    LET rounded == (200 * bytes + totalSize) \div (2 * totalSize)
    IN  IF rounded < 99 THEN rounded ELSE 99

\* The call fetchBatchEmbeddings sends: the cleaned texts (pos: the records
\* they come from).
ProviderCall(texts, records) ==
    [texts |-> [k \in 1..Len(texts) |-> CleanText(texts[k])],
     pos |-> [k \in 1..Len(records) |-> records[k].pos],
     outcome |-> "pending"]

\* The last call of the run is answered.
Answered(resp, n) ==
    [calls EXCEPT ![Len(calls)].outcome =
        IF ResponseFails(resp, n) THEN "failed" ELSE "ok"]

PendingFilesAnyStatus(f) == TRUE

\* files.filter(f => f.status === 'pending' || f.status === 'error')
PendingFiles(f) == f.status = "pending" \/ f.status = "error"

\* startProcessing: picks the pending and failed files and runs processFile
\* on each; processFile up to its first read of the file.
StartProcessing ==
    /\ program = "app"
    /\ ~isProcessing
    /\ pc = "idle"
    /\ PendingFiles(fileItem)
    /\ isProcessing' = TRUE
    /\ UpdateFileStatus([status |-> "processing", progress |-> 0])
    /\ pc' = "read"
    /\ lineIdx' = 0
    /\ line' = NoLine
    /\ processedBytes' = 0
    /\ processedLines' = <<>>
    /\ batch' = <<>>
    /\ batchRecords' = <<>>
    /\ processedCount' = 0
    /\ calls' = <<>>
    /\ lastBatch' = NoBatch
    /\ UNCHANGED <<inputVars, libVars, failBudget, cliVars>>

\* One turn of the for-await loop of processFile, up to the end of its body
\* or to the await of processBatch.
NextLine ==
    /\ program = "app"
    /\ pc = "read"
    /\ lineIdx < Len(LineIterator(fileContent))
    /\ LET l == LineIterator(fileContent)[lineIdx + 1]
           record == JSONparse(l)
           threw == JSONparseThrows(l) \/ GetEmbeddingTextThrows(record)
           textToEmbed == GetEmbeddingText(record)
           class == Classify(record, textToEmbed)
           passes == class # "batch"
           pushed == IF class = "embedded" THEN JSONstringify(record) ELSE l
           newBatch == IF passes THEN batch ELSE Append(batch, textToEmbed)
           newRecords == IF passes THEN batchRecords
                         ELSE Append(batchRecords, record)
       IN  /\ lineIdx' = lineIdx + 1
           /\ line' = l
           /\ processedBytes' = processedBytes + LineBytes(l)
           /\ IF threw
              THEN /\ processedLines' = OnLineError(processedLines, l)
                   /\ UNCHANGED <<batch, batchRecords, processedCount, calls, pc>>
              ELSE /\ processedLines' =
                        IF passes THEN Append(processedLines, pushed)
                        ELSE processedLines
                   /\ processedCount' =
                        IF passes THEN processedCount + 1 ELSE processedCount
                   /\ batch' = newBatch
                   /\ batchRecords' = newRecords
                   /\ IF BatchFull(newBatch)
                      THEN /\ calls' = Append(calls, ProviderCall(newBatch, newRecords))
                           /\ pc' = "awaitBatch"
                      ELSE UNCHANGED <<calls, pc>>
    /\ UNCHANGED <<inputVars, libVars, fileItem, isProcessing, failBudget,
                   lastBatch, cliVars>>

\* The provider answers a call made inside the loop: processBatch returns and
\* the body goes on, or it throws into the catch of the loop body.
BatchResolved ==
    /\ program = "app"
    /\ pc = "awaitBatch"
    /\ \E resp \in ProviderResponses(Len(calls), Len(batch), failBudget > 0) :
          LET r == ProcessBatch(batch, batchRecords, processedLines, resp)
          IN  /\ lastBatch' = [called |-> TRUE, final |-> FALSE,
                               records |-> batchRecords,
                               outputBuffer |-> processedLines,
                               resp |-> resp, result |-> r]
              /\ failBudget' = IF ResponseFails(resp, Len(batch))
                               THEN failBudget - 1 ELSE failBudget
              /\ calls' = Answered(resp, Len(batch))
              /\ IF r.threw
                 THEN /\ processedLines' = OnLineError(r.outputBuffer, line)
                      /\ UNCHANGED <<batch, batchRecords, processedCount, fileItem>>
                 ELSE /\ processedLines' = r.outputBuffer
                      /\ processedCount' = processedCount + Len(batch)
                      /\ batch' = <<>>
                      /\ batchRecords' = <<>>
                      /\ UpdateFileStatus(
                            [processed |-> processedCount + Len(batch),
                             progress |-> Progress(processedBytes,
                                                   FileSize(fileContent))])
    /\ pc' = "read"
    /\ UNCHANGED <<inputVars, libVars, isProcessing, lineIdx, line,
                   processedBytes, cliVars>>

\* processFile's last update, then startProcessing's setIsProcessing(false).
DoneCountsOutputLines(lines, count) ==
    /\ UpdateFileStatus([status |-> "done", progress |-> 100,
                         processed |-> Len(lines), total |-> Len(lines),
                         resultUrl |-> ObjectUrl(lines)])
    /\ isProcessing' = FALSE
    /\ pc' = "idle"

Done(lines, count) ==
    /\ UpdateFileStatus([status |-> "done", progress |-> 100,
                         processed |-> count, total |-> count,
                         resultUrl |-> ObjectUrl(lines)])
    /\ isProcessing' = FALSE
    /\ pc' = "idle"

FailedExposesPartial(message) ==
    /\ UpdateFileStatus([status |-> "error", error |-> message,
                         resultUrl |-> ObjectUrl(processedLines)])
    /\ isProcessing' = FALSE
    /\ pc' = "idle"

\* The outer catch of processFile, then startProcessing's setIsProcessing(false).
Failed(message) ==
    /\ UpdateFileStatus([status |-> "error", error |-> message])
    /\ isProcessing' = FALSE
    /\ pc' = "idle"

\* The line iterator is exhausted: the last partial batch is sent, or the
\* run is done at once.
EndOfInput ==
    /\ program = "app"
    /\ pc = "read"
    /\ lineIdx = Len(LineIterator(fileContent))
    /\ IF Len(batch) > 0
       THEN /\ calls' = Append(calls, ProviderCall(batch, batchRecords))
            /\ pc' = "awaitFinal"
            /\ UNCHANGED <<fileItem, isProcessing>>
       ELSE /\ Done(processedLines, processedCount)
            /\ UNCHANGED calls
    /\ UNCHANGED <<inputVars, libVars, appLocals, failBudget, lastBatch, cliVars>>

\* The provider answers the call made after the loop.
FinalResolved ==
    /\ program = "app"
    /\ pc = "awaitFinal"
    /\ \E resp \in ProviderResponses(Len(calls), Len(batch), failBudget > 0) :
          LET r == ProcessBatch(batch, batchRecords, processedLines, resp)
          IN  /\ lastBatch' = [called |-> TRUE, final |-> TRUE,
                               records |-> batchRecords,
                               outputBuffer |-> processedLines,
                               resp |-> resp, result |-> r]
              /\ failBudget' = IF ResponseFails(resp, Len(batch))
                               THEN failBudget - 1 ELSE failBudget
              /\ calls' = Answered(resp, Len(batch))
              /\ IF r.threw
                 THEN /\ Failed(r.message)
                      /\ UNCHANGED <<processedLines, processedCount, batchRecords>>
                 ELSE /\ processedLines' = r.outputBuffer
                      /\ batchRecords' = r.records
                      /\ processedCount' = processedCount + Len(batch)
                      /\ Done(r.outputBuffer, processedCount + Len(batch))
    /\ UNCHANGED <<inputVars, libVars, lineIdx, line, processedBytes, batch,
                   cliVars>>

NextApp == StartProcessing \/ NextLine \/ BatchResolved \/ EndOfInput \/ FinalResolved

(***************************************************************************)
(* scripts/embed_jsonl.js                                                  *)
(***************************************************************************)
\* fetchEmbedding (remote API): the first vector of the answer, or null
\* (Undefined here) when the request failed in any way.
FetchEmbedding(resp) ==
    IF resp.kind = "vectors" /\ Len(resp.vectors) >= 1
    THEN resp.vectors[1] ELSE Undefined

\* The script starts: the output file is opened for writing, the counters
\* are zero.
CliStart ==
    /\ program = "cli"
    /\ pc = "idle"
    /\ pc' = "read"
    /\ outputStream' = <<>>
    /\ processedCount' = 0
    /\ errorCount' = 0
    /\ skippedCount' = 0
    /\ UNCHANGED <<inputVars, libVars, fileItem, isProcessing, lineIdx, line,
                   processedBytes, processedLines, batch, batchRecords, calls,
                   failBudget, lastBatch>>

\* One turn of the for-await loop over the lines of the file, up to the end
\* of its body or to the await of fetchEmbedding.
CliNextLine ==
    /\ program = "cli"
    /\ pc = "read"
    /\ lineIdx < Len(fileContent)
    /\ LET l == fileContent[lineIdx + 1]
           record == JSONparse(l)
           textToEmbed == CliGetEmbeddingText(record)
           class == CliClassify(record, textToEmbed)
       IN  /\ lineIdx' = lineIdx + 1
           /\ line' = l
           /\ CASE l.val.kind = "blank" ->
                     UNCHANGED <<outputStream, processedCount, errorCount,
                                 skippedCount, calls, pc>>
                [] JSONparseThrows(l) ->
                     /\ errorCount' = errorCount + 1
                     /\ UNCHANGED <<outputStream, processedCount, skippedCount,
                                    calls, pc>>
                [] l.val.kind \notin {"blank", "invalid"} /\ class = "skip" ->
                     /\ skippedCount' = skippedCount + 1
                     /\ outputStream' = Append(outputStream, JSONstringify(record))
                     /\ UNCHANGED <<processedCount, errorCount, calls, pc>>
                [] l.val.kind \notin {"blank", "invalid"} /\ class = "embedded" ->
                     /\ outputStream' = Append(outputStream, JSONstringify(record))
                     /\ processedCount' = processedCount + 1
                     /\ UNCHANGED <<errorCount, skippedCount, calls, pc>>
                [] OTHER ->
                     /\ calls' = Append(calls, ProviderCall(<<textToEmbed>>, <<record>>))
                     /\ pc' = "awaitFetch"
                     /\ UNCHANGED <<outputStream, processedCount, errorCount,
                                    skippedCount>>
    /\ UNCHANGED <<inputVars, libVars, fileItem, isProcessing, processedBytes,
                   processedLines, batch, batchRecords, failBudget, lastBatch>>

\* fetchEmbedding returns: the record is written with its vector, or it is
\* counted as failed and the loop goes on.
CliFetchResolved ==
    /\ program = "cli"
    /\ pc = "awaitFetch"
    /\ \E resp \in ProviderResponses(Len(calls), 1, failBudget > 0) :
          LET embedding == FetchEmbedding(resp)
              record == JSONparse(line)
          IN  /\ failBudget' = IF ResponseFails(resp, 1)
                               THEN failBudget - 1 ELSE failBudget
              /\ calls' = Answered(resp, 1)
              /\ IF embedding # Undefined
                 THEN /\ outputStream' =
                            Append(outputStream,
                                   JSONstringify(SetEmbedding(record, embedding)))
                      /\ processedCount' = processedCount + 1
                      /\ UNCHANGED errorCount
                 ELSE /\ errorCount' = errorCount + 1
                      /\ UNCHANGED <<outputStream, processedCount>>
    /\ pc' = "read"
    /\ UNCHANGED <<inputVars, libVars, fileItem, isProcessing, lineIdx, line,
                   processedBytes, processedLines, batch, batchRecords,
                   lastBatch, skippedCount>>

\* The loop is over: outputStream.end() and the report; the script ends
\* normally.
CliEnd ==
    /\ program = "cli"
    /\ pc = "read"
    /\ lineIdx = Len(fileContent)
    /\ pc' = "finished"
    /\ UNCHANGED <<inputVars, libVars, fileItem, isProcessing, appLocals,
                   calls, failBudget, lastBatch, cliVars>>

\* The exit code of the script: the async main falls off its end (0) whatever
\* errorCount is; process.exit(1) is only for a missing input file.
CliExitCode == IF pc = "finished" THEN 0 ELSE 1

\* batch_embed.sh: if [ $? -eq 0 ] then "Done" else "Failed".
BatchEmbedReport(exitCode) == IF exitCode = 0 THEN "Done" ELSE "Failed"

NextCli == CliStart \/ CliNextLine \/ CliFetchResolved \/ CliEnd

(***************************************************************************)
(* getEmbeddingText on its own (App.jsx and embed_jsonl.js)                *)
(***************************************************************************)
pipelineVars == <<inputVars, fileItem, isProcessing, pc, appLocals, calls,
                  lastBatch, cliVars>>

\* The parsed JSON values getEmbeddingText is called with: objects with any
\* of the four fields empty or not, null, a number, an array.
TextRecords ==
    { [pos |-> 1,
       val |-> Obj(Str("d", i), Str("q", j), Str("a", k), Str("t", l), Undefined)] :
         i \in 0..MaxFieldLen, j \in 0..MaxFieldLen,
         k \in 0..MaxFieldLen, l \in 0..MaxFieldLen } \cup
    { [pos |-> 1, val |-> v] :
         v \in {JNull, NoFields("number"), NoFields("array")} }

\* Both versions of getEmbeddingText are called with the record.
CallGetEmbeddingText ==
    /\ program = "text"
    /\ ~textCall.called
    /\ LET record == textCall.record
       IN  textCall' =
             [called |-> TRUE,
              record |-> record,
              app |-> IF GetEmbeddingTextThrows(record)
                      THEN [threw |-> TRUE, value |-> <<>>]
                      ELSE [threw |-> FALSE, value |-> GetEmbeddingText(record)],
              cli |-> [threw |-> FALSE, value |-> CliGetEmbeddingText(record)],
              after |-> record]
    /\ UNCHANGED <<pipelineVars, failBudget, embedderVars, lineIter, queueVars>>

InitText ==
    /\ InitMain({"text"}, {<<>>}, 0)
    /\ textCall \in { [NoTextCall EXCEPT !.record = r, !.after = r] :
                      r \in TextRecords }
    /\ EmbedderIdle
    /\ lineIter = NoLineIter
    /\ QueueIdle

SpecText == InitText /\ [][CallGetEmbeddingText]_vars

(***************************************************************************)
(* app/src/lib/localEmbedder.js and the transformers provider of           *)
(* scripts/embed_jsonl.js                                                  *)
(*                                                                         *)
(* A promise of a model load is an entry of pipelineLoads, known by its    *)
(* index: invoked tells whether pipeline() has been called for it.         *)
(***************************************************************************)
NewLoad(modelId, invoked) ==
    [modelId |-> modelId, invoked |-> invoked, state |-> "pending"]

LoadPipelineAlwaysLoads(cache, loads, modelId) ==
    [cache |-> [cache EXCEPT ![modelId] = Len(loads) + 1],
     loads |-> Append(loads, NewLoad(modelId, TRUE)),
     promise |-> Len(loads) + 1]

LoadPipelineRetriesRejected(cache, loads, modelId) ==
    IF cache[modelId] = 0 \/ loads[cache[modelId]].state = "rejected"
    THEN [cache |-> [cache EXCEPT ![modelId] = Len(loads) + 1],
          loads |-> Append(loads, NewLoad(modelId, TRUE)),
          promise |-> Len(loads) + 1]
    ELSE [cache |-> cache, loads |-> loads, promise |-> cache[modelId]]

\* loadPipeline: the promise cached for modelId; pipeline() is called, and
\* its promise cached, only when the map has none.  No await in between.
LoadPipeline(cache, loads, modelId) ==
    IF cache[modelId] = 0
    THEN [cache |-> [cache EXCEPT ![modelId] = Len(loads) + 1],
          loads |-> Append(loads, NewLoad(modelId, TRUE)),
          promise |-> Len(loads) + 1]
    ELSE [cache |-> cache, loads |-> loads, promise |-> cache[modelId]]

\* getTransformerPipeline: the promise of the async function that imports
\* the library and then calls pipeline(); created when there is none.
GetTransformerPipeline(promise, loads) ==
    IF promise = 0
    THEN [promise |-> Len(loads) + 1,
          loads |-> Append(loads, NewLoad(TRANSFORMER_MODEL, FALSE))]
    ELSE [promise |-> promise, loads |-> loads]

\* Whether a call, when it is made, finds cached a load that has failed.
Found(promise, loads) ==
    promise # 0 /\ loads[promise].state = "rejected"

IsSpace(ch) == ch \in {" ", "\n"}

RECURSIVE DropLeadingSpace(_)
DropLeadingSpace(t) ==
    IF t # <<>> /\ IsSpace(Head(t)) THEN DropLeadingSpace(Tail(t)) ELSE t

RECURSIVE DropTrailingSpace(_)
DropTrailingSpace(t) ==
    IF t # <<>> /\ IsSpace(t[Len(t)])
    THEN DropTrailingSpace(SubSeq(t, 1, Len(t) - 1)) ELSE t

\* text.replace(/\s+/g, ' ')
RECURSIVE CollapseWhitespace(_)
CollapseWhitespace(t) ==
    IF t = <<>> THEN <<>>
    ELSE IF IsSpace(Head(t))
         THEN <<" ">> \o CollapseWhitespace(DropLeadingSpace(Tail(t)))
    ELSE <<Head(t)>> \o CollapseWhitespace(Tail(t))

\* text.replace(/\s+/g, ' ').trim()
CleanTextLocal(t) == DropTrailingSpace(DropLeadingSpace(CollapseWhitespace(t)))

\* What the extractor of a model gives for a text: a tensor, or a throw.
ExtractorOutputs(modelId, cleanText, mayFail) ==
    { [threw |-> FALSE,
       data |-> [type |-> "Float32Array", items |-> <<modelId, cleanText>>]] } \cup
    IF mayFail
    THEN { [threw |-> TRUE, data |-> [type |-> "none", items |-> <<>>]] }
    ELSE {}

\* Array.from(output.data)
ArrayFrom(data) == [type |-> "array", items |-> data.items]

PushEmbeddingSkipsFailure(embeddings, output) ==
    IF output.threw
    THEN [threw |-> FALSE, embeddings |-> embeddings]
    ELSE [threw |-> FALSE, embeddings |-> Append(embeddings, ArrayFrom(output.data))]

\* The body of the loop of embedTextsLocally once the extractor has
\* answered: the vector is pushed, or the throw leaves the function.
PushEmbedding(embeddings, output) ==
    IF output.threw
    THEN [threw |-> TRUE, embeddings |-> embeddings]
    ELSE [threw |-> FALSE, embeddings |-> Append(embeddings, ArrayFrom(output.data))]

\* The text at index k of a texts argument: k words, with white space to
\* clean around and between them.
LocalText(k) == <<" ">> \o Str("x", k) \o <<"\n", " ", "y", "\n">>
LocalTexts == { LocalText(k) : k \in 1..MaxTexts }

\* The texts argument: an array of at most MaxTexts texts, all different, or
\* not an array.
EmbedInputs ==
    { [isArray |-> FALSE, texts |-> <<>>] } \cup
    { [isArray |-> TRUE, texts |-> [k \in 1..n |-> LocalText(k)]] :
        n \in 0..MaxTexts }

RECURSIVE CallsMade(_)
CallsMade(c) == IF c = 0 THEN 0 ELSE embedCalls[c].n + CallsMade(c - 1)

\* The call of caller c ends with a throw: embedTextsLocally rejects;
\* fetchEmbedding catches and returns null.
Raise(c, call) ==
    IF program = "embedder"
    THEN [call EXCEPT !.pc = "threw", !.result = <<>>]
    ELSE [call EXCEPT !.pc = "returned", !.result = <<>>, !.isNull = TRUE]

\* embedTextsLocally up to its await of loadPipeline (or its early return).
EmbedTextsLocally(c) ==
    /\ program = "embedder"
    /\ embedCalls[c].pc \in {"idle", "returned", "threw"}
    /\ CallsMade(MaxCallers) < MaxEmbedCalls
    /\ \E input \in EmbedInputs, modelId \in ModelIds :
          LET call == [NoEmbedCall EXCEPT !.n = embedCalls[c].n + 1,
                                          !.isArray = input.isArray,
                                          !.texts = input.texts,
                                          !.modelId = modelId,
                                          !.found = Found(cachedPipelines[modelId],
                                                          pipelineLoads)]
              r == LoadPipeline(cachedPipelines, pipelineLoads, modelId)
          IN  IF ~input.isArray \/ Len(input.texts) = 0
              THEN /\ embedCalls' = [embedCalls EXCEPT ![c] =
                                        [call EXCEPT !.pc = "returned"]]
                   /\ UNCHANGED <<cachedPipelines, pipelineLoads>>
              ELSE /\ cachedPipelines' = r.cache
                   /\ pipelineLoads' = r.loads
                   /\ embedCalls' = [embedCalls EXCEPT ![c] =
                                        [call EXCEPT !.pc = "awaitLoad",
                                                     !.promise = r.promise]]
    /\ UNCHANGED <<pipelineVars, failBudget, textVars, transformerPipelinePromise>>

\* fetchEmbedding / fetchEmbeddingWithTransformers up to the await of
\* getTransformerPipeline.
FetchEmbeddingWithTransformers(c) ==
    /\ program = "cliEmbedder"
    /\ embedCalls[c].pc \in {"idle", "returned"}
    /\ CallsMade(MaxCallers) < MaxEmbedCalls
    /\ \E text \in LocalTexts :
          LET r == GetTransformerPipeline(transformerPipelinePromise, pipelineLoads)
          IN  /\ transformerPipelinePromise' = r.promise
              /\ pipelineLoads' = r.loads
              /\ embedCalls' = [embedCalls EXCEPT ![c] =
                    [NoEmbedCall EXCEPT !.n = embedCalls[c].n + 1,
                                        !.texts = <<text>>,
                                        !.modelId = TRANSFORMER_MODEL,
                                        !.found = Found(transformerPipelinePromise,
                                                        pipelineLoads),
                                        !.pc = "awaitLoad",
                                        !.promise = r.promise]]
    /\ UNCHANGED <<pipelineVars, failBudget, textVars, cachedPipelines>>

\* getTransformerPipeline's async function: the import is over and
\* pipeline() is called, or the import failed and the promise rejects.
ImportResolved(n) ==
    /\ n \in 1..Len(pipelineLoads)
    /\ ~pipelineLoads[n].invoked
    /\ pipelineLoads[n].state = "pending"
    /\ \/ /\ pipelineLoads' = [pipelineLoads EXCEPT ![n].invoked = TRUE]
          /\ UNCHANGED failBudget
       \/ /\ failBudget > 0
          /\ pipelineLoads' = [pipelineLoads EXCEPT ![n].state = "rejected"]
          /\ failBudget' = failBudget - 1
    /\ UNCHANGED <<pipelineVars, textVars, cachedPipelines,
                   transformerPipelinePromise, embedCalls>>

\* pipeline() settles: the model is loaded, or the load failed.
PipelineSettles(n) ==
    /\ n \in 1..Len(pipelineLoads)
    /\ pipelineLoads[n].invoked
    /\ pipelineLoads[n].state = "pending"
    /\ \/ /\ pipelineLoads' = [pipelineLoads EXCEPT ![n].state = "fulfilled"]
          /\ UNCHANGED failBudget
       \/ /\ failBudget > 0
          /\ pipelineLoads' = [pipelineLoads EXCEPT ![n].state = "rejected"]
          /\ failBudget' = failBudget - 1
    /\ UNCHANGED <<pipelineVars, textVars, cachedPipelines,
                   transformerPipelinePromise, embedCalls>>

\* The await of the promise returns the extractor and the extractor is
\* called with the first text, or the await throws.
LoadAwaited(c) ==
    /\ embedCalls[c].pc = "awaitLoad"
    /\ pipelineLoads[embedCalls[c].promise].state # "pending"
    /\ embedCalls' = [embedCalls EXCEPT ![c] =
          IF pipelineLoads[embedCalls[c].promise].state = "rejected"
          THEN Raise(c, embedCalls[c])
          ELSE [embedCalls[c] EXCEPT !.pc = "awaitExtract", !.i = 1]]
    /\ UNCHANGED <<pipelineVars, failBudget, textVars, cachedPipelines,
                   transformerPipelinePromise, pipelineLoads>>

\* The extractor answers for text i: the loop goes on with the next text,
\* the function returns its list, or the throw leaves the function.
ExtractResolved(c) ==
    /\ embedCalls[c].pc = "awaitExtract"
    /\ LET call == embedCalls[c]
       IN  \E output \in ExtractorOutputs(pipelineLoads[call.promise].modelId,
                                          CleanTextLocal(call.texts[call.i]),
                                          failBudget > 0) :
              LET r == PushEmbedding(call.embeddings, output)
                  seen == [call EXCEPT !.embeddings = r.embeddings,
                                       !.failed = call.failed \/ output.threw]
              IN  /\ failBudget' = IF output.threw THEN failBudget - 1
                                   ELSE failBudget
                  /\ embedCalls' = [embedCalls EXCEPT ![c] =
                        IF r.threw THEN Raise(c, seen)
                        ELSE IF call.i < Len(call.texts)
                        THEN [seen EXCEPT !.i = call.i + 1]
                        ELSE [seen EXCEPT !.pc = "returned",
                                          !.result = r.embeddings]]
    /\ UNCHANGED <<pipelineVars, textVars, cachedPipelines,
                   transformerPipelinePromise, pipelineLoads>>

NextLocal ==
    \/ \E c \in Callers : EmbedTextsLocally(c)
    \/ \E c \in Callers : FetchEmbeddingWithTransformers(c)
    \/ \E n \in 1..MaxEmbedCalls : ImportResolved(n)
    \/ \E n \in 1..MaxEmbedCalls : PipelineSettles(n)
    \/ \E c \in Callers : LoadAwaited(c)
    \/ \E c \in Callers : ExtractResolved(c)

InitLocal == InitWith({"embedder", "cliEmbedder"}, {<<>>}, MaxFail)

SpecLocal == InitLocal /\ [][NextLocal]_vars

(***************************************************************************)
(* lineIterator on its own (App.jsx)                                       *)
(*                                                                         *)
(* The content of the file is a sequence of characters; "e'" stands for a  *)
(* character of two bytes, <<"C3", "A9">>, the others are one byte.        *)
(***************************************************************************)
Chars == {"a", " ", "\n", "e'"}
Contents == UNION { [1..n -> Chars] : n \in 0..MaxContent }

\* The bytes of the file (UTF-8).
RECURSIVE Encode(_)
Encode(text) ==
    IF text = <<>> THEN <<>>
    ELSE (IF Head(text) = "e'" THEN <<"C3", "A9">> ELSE <<Head(text)>>)
         \o Encode(Tail(text))

\* decoder.decode(chunk, { stream: true }): the characters completed by the
\* bytes kept from the chunks before and the bytes of this chunk, and the
\* bytes of a character still incomplete, which the decoder keeps.
RECURSIVE DecodeBytes(_)
DecodeBytes(bytes) ==
    IF bytes = <<>> THEN [text |-> <<>>, pending |-> <<>>]
    ELSE IF Head(bytes) = "C3"
         THEN IF Len(bytes) = 1 THEN [text |-> <<>>, pending |-> bytes]
              ELSE LET rest == DecodeBytes(Tail(Tail(bytes)))
                   IN  [text |-> <<"e'">> \o rest.text, pending |-> rest.pending]
    ELSE LET rest == DecodeBytes(Tail(bytes))
         IN  [text |-> <<Head(bytes)>> \o rest.text, pending |-> rest.pending]

Decode(pending, chunk) == DecodeBytes(pending \o chunk)

\* buffer.split('\n'): acc is the segment being gathered.
RECURSIVE SplitFrom(_, _)
SplitFrom(text, acc) ==
    IF text = <<>> THEN <<acc>>
    ELSE IF Head(text) = "\n" THEN <<acc>> \o SplitFrom(Tail(text), <<>>)
    ELSE SplitFrom(Tail(text), Append(acc, Head(text)))

Split(text) == SplitFrom(text, <<>>)

\* line.trim() is not empty.
TrimNotEmpty(l) == \E i \in 1..Len(l) : l[i] \notin {" ", "\n"}

LoopConditionNoTail(readerDone, buffer) == ~readerDone

\* while (!readerDone || buffer)
LoopCondition(readerDone, buffer) == ~readerDone \/ buffer # <<>>

\* reader.read(): the next chunk of the stream, of any length, or done.
ReaderRead(it) ==
    LET bytes == Encode(it.content)
    IN  IF it.pos = Len(bytes)
        THEN { [it EXCEPT !.chunk = <<>>, !.hasChunk = FALSE, !.readerDone = TRUE] }
        ELSE { [it EXCEPT !.chunk = SubSeq(bytes, it.pos + 1, it.pos + k),
                          !.hasChunk = TRUE, !.readerDone = FALSE,
                          !.pos = it.pos + k, !.reads = it.reads + 1] :
                 k \in 1..(Len(bytes) - it.pos) }

\* lineIterator is called and awaits its first reader.read().
LineIteratorFirstRead ==
    /\ program = "lines"
    /\ lineIter.pc = "idle"
    /\ \E it \in ReaderRead(lineIter) : lineIter' = [it EXCEPT !.pc = "loop"]
    /\ UNCHANGED <<pipelineVars, failBudget, textCall, embedderVars, queueVars>>

\* One turn of the while loop, up to its end or to the answer of its
\* reader.read(); the lines it yields are taken by the consumer.
LineIteratorTurn ==
    /\ program = "lines"
    /\ lineIter.pc = "loop"
    /\ IF ~LoopCondition(lineIter.readerDone, lineIter.buffer)
       THEN lineIter' = [lineIter EXCEPT !.pc = "end"]
       ELSE LET decoded == IF lineIter.hasChunk
                           THEN Decode(lineIter.pending, lineIter.chunk)
                           ELSE [text |-> <<>>, pending |-> lineIter.pending]
                buffer == lineIter.buffer \o decoded.text
                split == Split(buffer)
                lines == IF lineIter.readerDone THEN split
                         ELSE SubSeq(split, 1, Len(split) - 1)
                turned == [lineIter EXCEPT
                             !.pending = decoded.pending,
                             !.buffer = IF lineIter.readerDone THEN <<>>
                                        ELSE split[Len(split)],
                             !.yielded = lineIter.yielded \o
                                            SelectSeq(lines, TrimNotEmpty)]
            IN  IF lineIter.readerDone
                THEN lineIter' = [turned EXCEPT !.pc = "end"]
                ELSE \E it \in ReaderRead(turned) : lineIter' = it
    /\ UNCHANGED <<pipelineVars, failBudget, textCall, embedderVars, queueVars>>

NextLines == LineIteratorFirstRead \/ LineIteratorTurn

InitLines ==
    /\ InitMain({"lines"}, {<<>>}, 0)
    /\ textCall = NoTextCall
    /\ EmbedderIdle
    /\ QueueIdle
    /\ lineIter \in { [NoLineIter EXCEPT !.content = t] : t \in Contents }

SpecLines == InitLines /\ [][NextLines]_vars

(***************************************************************************)
(* The file list of App.jsx: several files, startProcessing's queue        *)
(*                                                                         *)
(* An invocation of startProcessing under way is an entry of tasks: the    *)
(* ids of its pendingFiles, the index k of the one processFile is running  *)
(* on, and the locals of that processFile.                                 *)
(***************************************************************************)
\* The files a user adds: empty, one record, one unparseable line, one
\* record more than a batch.
QueueContents ==
    { BuildFile(n, <<>>) : n \in {0, 1, BATCH_SIZE + 1} } \cup
    { BuildFile(1, [i \in {1} |-> [fmt |-> "spaced", val |-> NotJson]]) }

\* addFiles: the entry of a newly added file (ids are taken as distinct).
NewQueuedFile(id, content) ==
    [id |-> id, content |-> content, status |-> "pending", progress |-> 0,
     total |-> 0, processed |-> 0, resultUrl |-> NullUrl, error |-> "null"]

SetFileStatusAll(fs, id, updates) ==
    [i \in 1..Len(fs) |->
        [f \in DOMAIN fs[i] |->
            IF f \in DOMAIN updates THEN updates[f] ELSE fs[i][f]]]

\* updateFileStatus: setFiles(prev => prev.map(f => f.id === id ? {...f, ...updates} : f))
SetFileStatus(fs, id, updates) ==
    [i \in 1..Len(fs) |->
        IF fs[i].id = id
        THEN [f \in DOMAIN fs[i] |->
                 IF f \in DOMAIN updates THEN updates[f] ELSE fs[i][f]]
        ELSE fs[i]]

FileOf(fs, id) == fs[CHOOSE i \in 1..Len(fs) : fs[i].id = id]

RemoveAt(seq, i) == SubSeq(seq, 1, i - 1) \o SubSeq(seq, i + 1, Len(seq))

StartDisabledNever(isProc, fs) == FALSE

\* The Start button: disabled={isProcessing || files.every(f => f.status === 'done')}
StartDisabled(isProc, fs) ==
    isProc \/ \A i \in 1..Len(fs) : fs[i].status = "done"

ContinueAfterDoneOnly(status) == status = "done"

\* processFile catches its failure and returns: the loop of startProcessing
\* goes on with the next file after a file that is done or in error.
ContinueAfter(status) == status \in {"done", "error"}

\* processFile is called on the file at index k of pendingFiles: its locals.
NewTask(pending, k) ==
    [pending |-> pending, k |-> k, pc |-> "read", lineIdx |-> 0, line |-> NoLine,
     processedBytes |-> 0, processedLines |-> <<>>, batch |-> <<>>,
     batchRecords |-> <<>>, processedCount |-> 0]

\* processFile has set its file to status (done or error) and returned:
\* startProcessing calls processFile on the next file, or sets isProcessing
\* to false and ends.
Advance(fs, t, status) ==
    LET task == tasks[t]
    IN  IF ~ContinueAfter(status)
        THEN /\ files' = fs
             /\ tasks' = RemoveAt(tasks, t)
             /\ UNCHANGED isProcessing
        ELSE IF task.k < Len(task.pending)
        THEN /\ files' = SetFileStatus(fs, task.pending[task.k + 1],
                                       [status |-> "processing", progress |-> 0])
             /\ tasks' = [tasks EXCEPT ![t] = NewTask(task.pending, task.k + 1)]
             /\ UNCHANGED isProcessing
        ELSE /\ files' = fs
             /\ tasks' = RemoveAt(tasks, t)
             /\ isProcessing' = FALSE

queueRest == <<inputVars, fileItem, pc, appLocals, calls, lastBatch, cliVars,
               textCall, lineIter, embedderVars>>

\* addFiles (file input or drop; a drop is possible while processing).
QAddFiles ==
    /\ program = "queue"
    /\ nextId <= MaxFiles
    /\ \E content \in QueueContents :
          files' = Append(files, NewQueuedFile(nextId, content))
    /\ nextId' = nextId + 1
    /\ UNCHANGED <<queueRest, isProcessing, failBudget, tasks>>

\* removeFile
QRemoveFile ==
    /\ program = "queue"
    /\ ~isProcessing
    /\ \E i \in 1..Len(files) : files' = RemoveAt(files, i)
    /\ UNCHANGED <<queueRest, isProcessing, failBudget, tasks, nextId>>

\* clearAll
QClearAll ==
    /\ program = "queue"
    /\ ~isProcessing
    /\ files # <<>>
    /\ files' = <<>>
    /\ UNCHANGED <<queueRest, isProcessing, failBudget, tasks, nextId>>

\* startProcessing, up to the first await of processFile on the first of
\* its pendingFiles.
QStartProcessing ==
    /\ program = "queue"
    /\ ~StartDisabled(isProcessing, files)
    /\ Len(tasks) < MaxTasks
    /\ LET picked == SelectSeq(files, PendingFiles)
           pending == [j \in 1..Len(picked) |-> picked[j].id]
       IN  IF pending = <<>>
           THEN /\ isProcessing' = FALSE
                /\ UNCHANGED <<files, tasks>>
           ELSE /\ isProcessing' = TRUE
                /\ files' = SetFileStatus(files, pending[1],
                                          [status |-> "processing", progress |-> 0])
                /\ tasks' = Append(tasks, NewTask(pending, 1))
    /\ UNCHANGED <<queueRest, failBudget, nextId>>

\* The lines processFile of task t iterates over.
TaskLines(t) ==
    LineIterator(FileOf(files, tasks[t].pending[tasks[t].k]).content)

TaskFile(t) == tasks[t].pending[tasks[t].k]

\* One turn of the for-await loop of the processFile of task t.
QNextLine(t) ==
    /\ program = "queue"
    /\ t \in 1..Len(tasks)
    /\ tasks[t].pc = "read"
    /\ tasks[t].lineIdx < Len(TaskLines(t))
    /\ LET task == tasks[t]
           l == TaskLines(t)[task.lineIdx + 1]
           record == JSONparse(l)
           threw == JSONparseThrows(l) \/ GetEmbeddingTextThrows(record)
           textToEmbed == GetEmbeddingText(record)
           class == Classify(record, textToEmbed)
           passes == class # "batch"
           pushed == IF class = "embedded" THEN JSONstringify(record) ELSE l
           newBatch == IF passes THEN task.batch ELSE Append(task.batch, textToEmbed)
           read == [task EXCEPT !.lineIdx = task.lineIdx + 1, !.line = l,
                                !.processedBytes = task.processedBytes + LineBytes(l)]
       IN  tasks' = [tasks EXCEPT ![t] =
              IF threw
              THEN [read EXCEPT !.processedLines = OnLineError(task.processedLines, l)]
              ELSE [read EXCEPT
                      !.processedLines = IF passes THEN Append(task.processedLines, pushed)
                                         ELSE task.processedLines,
                      !.processedCount = IF passes THEN task.processedCount + 1
                                         ELSE task.processedCount,
                      !.batch = newBatch,
                      !.batchRecords = IF passes THEN task.batchRecords
                                       ELSE Append(task.batchRecords, record),
                      !.pc = IF BatchFull(newBatch) THEN "awaitBatch" ELSE "read"]]
    /\ UNCHANGED <<queueRest, isProcessing, failBudget, files, nextId>>

\* The provider answers the call task t made inside the loop.
QBatchResolved(t) ==
    /\ program = "queue"
    /\ t \in 1..Len(tasks)
    /\ tasks[t].pc = "awaitBatch"
    /\ LET task == tasks[t]
       IN  \E resp \in ProviderResponses(task.lineIdx, Len(task.batch), failBudget > 0) :
              LET r == ProcessBatch(task.batch, task.batchRecords,
                                    task.processedLines, resp)
                  count == task.processedCount + Len(task.batch)
              IN  /\ failBudget' = IF ResponseFails(resp, Len(task.batch))
                                   THEN failBudget - 1 ELSE failBudget
                  /\ IF r.threw
                     THEN /\ tasks' = [tasks EXCEPT ![t] =
                                [task EXCEPT !.pc = "read",
                                             !.processedLines =
                                                OnLineError(r.outputBuffer, task.line)]]
                          /\ UNCHANGED files
                     ELSE /\ tasks' = [tasks EXCEPT ![t] =
                                [task EXCEPT !.pc = "read",
                                             !.processedLines = r.outputBuffer,
                                             !.processedCount = count,
                                             !.batch = <<>>,
                                             !.batchRecords = <<>>]]
                          /\ files' = SetFileStatus(files, TaskFile(t),
                                [processed |-> count,
                                 progress |-> Progress(task.processedBytes,
                                    FileSize(FileOf(files, TaskFile(t)).content))])
    /\ UNCHANGED <<queueRest, isProcessing, nextId>>

\* The line iterator of task t is exhausted: the last batch is sent, or the
\* file is done and startProcessing goes on.
QEndOfInput(t) ==
    /\ program = "queue"
    /\ t \in 1..Len(tasks)
    /\ tasks[t].pc = "read"
    /\ tasks[t].lineIdx = Len(TaskLines(t))
    /\ LET task == tasks[t]
       IN  IF Len(task.batch) > 0
           THEN /\ tasks' = [tasks EXCEPT ![t].pc = "awaitFinal"]
                /\ UNCHANGED <<files, isProcessing>>
           ELSE Advance(SetFileStatus(files, TaskFile(t),
                           [status |-> "done", progress |-> 100,
                            processed |-> task.processedCount,
                            total |-> task.processedCount,
                            resultUrl |-> ObjectUrl(task.processedLines)]),
                        t, "done")
    /\ UNCHANGED <<queueRest, failBudget, nextId>>

\* The provider answers the call task t made after the loop: the file is
\* done or in error, and startProcessing goes on.
QFinalResolved(t) ==
    /\ program = "queue"
    /\ t \in 1..Len(tasks)
    /\ tasks[t].pc = "awaitFinal"
    /\ LET task == tasks[t]
       IN  \E resp \in ProviderResponses(task.lineIdx + 1, Len(task.batch), failBudget > 0) :
              LET r == ProcessBatch(task.batch, task.batchRecords,
                                    task.processedLines, resp)
                  count == task.processedCount + Len(task.batch)
              IN  /\ failBudget' = IF ResponseFails(resp, Len(task.batch))
                                   THEN failBudget - 1 ELSE failBudget
                  /\ IF r.threw
                     THEN Advance(SetFileStatus(files, TaskFile(t),
                                     [status |-> "error", error |-> r.message]),
                                  t, "error")
                     ELSE Advance(SetFileStatus(files, TaskFile(t),
                                     [status |-> "done", progress |-> 100,
                                      processed |-> count, total |-> count,
                                      resultUrl |-> ObjectUrl(r.outputBuffer)]),
                                  t, "done")
    /\ UNCHANGED <<queueRest, nextId>>

\* A step of a processFile under way.
QStep ==
    \E t \in 1..MaxTasks :
        QNextLine(t) \/ QBatchResolved(t) \/ QEndOfInput(t) \/ QFinalResolved(t)

NextQueue ==
    \/ QAddFiles \/ QRemoveFile \/ QClearAll \/ QStartProcessing
    \/ \E t \in 1..MaxTasks : QNextLine(t)
    \/ \E t \in 1..MaxTasks : QBatchResolved(t)
    \/ \E t \in 1..MaxTasks : QEndOfInput(t)
    \/ \E t \in 1..MaxTasks : QFinalResolved(t)

InitQueue == InitWith({"queue"}, {<<>>}, MaxFail)

SpecQueue == InitQueue /\ [][NextQueue]_vars

\* The event loop runs every continuation that is ready, and the provider
\* answers every call.
SpecQueueFair == SpecQueue /\ WF_vars(QStep)

Next == NextApp \/ NextCli

Spec == Init /\ [][Next]_vars

(***************************************************************************)
(* A provider that never fails, on files long enough for three batches     *)
(***************************************************************************)
InitNoFail == InitWith({"app"}, PlainFiles \cup InputFiles, 0)

SpecNoFail == InitNoFail /\ [][NextApp]_vars

(***************************************************************************)
(* Fully embedded input, and the output of a run fed back as input         *)
(***************************************************************************)
EmbeddedVals ==
    { [fmt |-> "compact", val |-> Blank],
      [fmt |-> "spaced", val |-> Obj(<<>>, <<>>, <<>>, <<"t">>, Vec(0, 1))],
      [fmt |-> "compact", val |-> Obj(<<>>, <<>>, <<>>, <<"t">>, Vec(0, 2))],
      [fmt |-> "compact", val |-> Obj(<<>>, <<>>, <<>>, <<>>, Vec(0, 1))],
      [fmt |-> "spaced", val |-> Obj(<<"d">>, <<"q">>, <<"a">>, <<>>, Vec(0, 1))] }

EmbeddedFiles ==
    UNION { { BuildFile(n, sp) : sp \in [1..n -> EmbeddedVals] } :
            n \in 0..MaxIdemLines }

\* The lines of a written output, as the lines of a file.
AsFile(lines) == [i \in 1..Len(lines) |-> [lines[i] EXCEPT !.pos = i]]

\* The result of a finished run is downloaded and added in place of the
\* file it came from (downloadAll, clearAll, addFiles).
Reupload ==
    /\ program = "app"
    /\ pc = "idle"
    /\ ~isProcessing
    /\ fileItem.status = "done"
    /\ generation < MaxGenerations
    /\ generation' = generation + 1
    /\ fileContent' = AsFile(fileItem.resultUrl.lines)
    /\ prevOutput' = AsFile(fileItem.resultUrl.lines)
    /\ fileItem' = NewFileItem
    /\ UNCHANGED <<program, libVars, isProcessing, pc, appLocals, calls, failBudget,
                   lastBatch, cliVars>>

\* The script is run again on the output file of its previous run.
CliRerun ==
    /\ program = "cli"
    /\ pc = "finished"
    /\ generation < MaxGenerations
    /\ generation' = generation + 1
    /\ fileContent' = AsFile(outputStream)
    /\ prevOutput' = AsFile(outputStream)
    /\ pc' = "idle"
    /\ lineIdx' = 0
    /\ line' = NoLine
    /\ calls' = <<>>
    /\ UNCHANGED <<program, libVars, fileItem, isProcessing, processedBytes,
                   processedLines, batch, batchRecords, processedCount,
                   failBudget, lastBatch, cliVars>>

NextIdem ==
    \/ StartProcessing \/ NextLine \/ EndOfInput \/ Reupload
    \/ CliStart \/ CliNextLine \/ CliEnd \/ CliRerun

InitIdem == InitWith({"app", "cli"}, EmbeddedFiles, MaxFail)

SpecIdem == InitIdem /\ [][NextIdem]_vars

(***************************************************************************)
(* Properties                                                              *)
(***************************************************************************)
Range(f) == { f[i] : i \in DOMAIN f }

\* The lines the loop of processFile has taken from the line iterator.
Yielded == SubSeq(LineIterator(fileContent), 1, lineIdx)

\* The output a finished run of processFile exposes.
Output == fileItem.resultUrl.lines

AppDone == program = "app" /\ fileItem.status = "done"

Sent(pos) == \E c \in 1..Len(calls) : pos \in Range(calls[c].pos)
Waiting(pos) == \E k \in 1..Len(batchRecords) : batchRecords[k].pos = pos
Copies(lines, pos) == { a \in 1..Len(lines) : lines[a].pos = pos }

\* A record the pipeline has to embed: its extracted text is not empty and it
\* carries no non-empty embedding array.
Embeddable(text, val) ==
    /\ text # <<>>
    /\ ~(val.embedding.type = "array" /\ val.embedding.items # <<>>)

\* C1: when a run of processFile ends with status done, the output lines are
\* in the order of the input lines they come from: no output line comes
\* before the output line of an earlier input line.
C1_OutputInInputOrder ==
    AppDone =>
        \A a, b \in 1..Len(Output) : a < b => Output[a].pos <= Output[b].pos

\* C2: when a run of processFile ends with status done, the output holds
\* exactly one line for each non-blank input line, whatever the provider
\* answered during the run.
C2_OneOutputLinePerInputLine ==
    AppDone =>
        /\ Len(Output) = Len(LineIterator(fileContent))
        /\ \A i \in 1..Len(LineIterator(fileContent)) :
              Cardinality(Copies(Output, LineIterator(fileContent)[i].pos)) = 1

\* C3: a run of processFile in which a provider call failed (inside the loop
\* or after it) has ended with status error and a stored error message: it
\* is never done.
C3_ProviderFailureEndsInError ==
    (program = "app" /\ pc = "idle"
        /\ \E c \in 1..Len(calls) : calls[c].outcome = "failed") =>
        /\ fileItem.status = "error"
        /\ fileItem.error # "null"

\* C4: a line that is not valid JSON is in the output buffer exactly once and
\* verbatim, is part of no provider call, triggers no call of its own, is not
\* counted in processed, and does not end the run: a run only fails on a
\* failed provider call.
C4_UnparseableLinePassedThrough ==
    program = "app" =>
        LET yielded == Yielded
            parsed == { i \in 1..lineIdx : yielded[i].val.kind # "invalid" }
        IN  /\ \A i \in (1..lineIdx) \ parsed :
                  LET l == yielded[i]
                  IN  /\ Cardinality(Copies(processedLines, l.pos)) = 1
                      /\ \A a \in Copies(processedLines, l.pos) :
                            processedLines[a] = l
                      /\ ~Sent(l.pos)
                      /\ ~Waiting(l.pos)
                      /\ AppDone =>
                            /\ Cardinality(Copies(Output, l.pos)) = 1
                            /\ \A a \in Copies(Output, l.pos) : Output[a] = l
            /\ processedCount <= Cardinality(parsed)
            /\ AppDone => fileItem.processed <= Cardinality(parsed)
            /\ line.val.kind = "invalid" => pc # "awaitBatch"
            /\ fileItem.status = "error" =>
                  /\ calls # <<>>
                  /\ calls[Len(calls)].outcome = "failed"

C4_Witness ==
    /\ AppDone
    /\ calls # <<>>
    /\ \E i \in 1..lineIdx : Yielded[i].val.kind = "invalid"

\* C5: a parsed record is sent to the provider if and only if its extracted
\* text is not empty and it carries no non-empty embedding array (in
\* processFile a record to send may still wait in the batch while the run
\* goes on); every other record is written to the output with its fields,
\* embedding included, as they were, and is part of no provider call.  In
\* processFile and in the main loop of embed_jsonl.js.
C5_SentIffEmbeddable ==
    /\ program = "app" =>
          LET yielded == Yielded
          IN
          \A i \in 1..lineIdx :
             LET l == yielded[i]
                 text == GetEmbeddingText(JSONparse(l))
             IN  l.val.kind # "invalid" =>
                   IF Embeddable(text, l.val)
                   THEN /\ Sent(l.pos) \/ Waiting(l.pos)
                        /\ pc = "idle" => Sent(l.pos)
                   ELSE /\ ~Sent(l.pos)
                        /\ ~Waiting(l.pos)
                        /\ Copies(processedLines, l.pos) # {}
                        /\ \A a \in Copies(processedLines, l.pos) :
                              processedLines[a].val = l.val
    /\ program = "cli" =>
          \A i \in 1..lineIdx :
             LET l == fileContent[i]
                 text == CliGetEmbeddingText(JSONparse(l))
             IN  l.val.kind \notin {"invalid", "blank"} =>
                   IF Embeddable(text, l.val)
                   THEN Sent(l.pos)
                   ELSE /\ ~Sent(l.pos)
                        /\ Copies(outputStream, l.pos) # {}
                        /\ \A a \in Copies(outputStream, l.pos) :
                              outputStream[a].val = l.val

C5_Witness ==
    /\ AppDone
    /\ calls # <<>>
    /\ \E i \in 1..lineIdx :
          /\ Yielded[i].val.embedding.type = "array"
          /\ Yielded[i].val.embedding.items # <<>>
          /\ Yielded[i].val.text # <<>>

\* C8: every provider call of processFile carries at least 1 and at most
\* BATCH_SIZE texts, also after an earlier call of the run has failed.
C8_CallSizeWithinBatchSize ==
    program = "app" =>
        \A c \in 1..Len(calls) :
            Len(calls[c].texts) >= 1 /\ Len(calls[c].texts) <= BATCH_SIZE

\* C9: within one run of processFile no record is part of two provider
\* calls: a batch is sent once, and a batch whose call failed is not sent
\* again.
C9_BatchSentOnce ==
    program = "app" =>
        \A c, d \in 1..Len(calls) :
            c < d => Range(calls[c].pos) \cap Range(calls[d].pos) = {}

\* C10: processBatch is all-or-nothing and index-matched: given as many
\* vectors as the batch has records, record k leaves with vector k, its
\* other fields untouched, and the records are appended to the output buffer
\* in batch order; given a failure or another number of vectors, it throws,
\* no record is changed and the output buffer is as it was.
C10_ProcessBatchAllOrNothing ==
    lastBatch.called =>
        LET n == Len(lastBatch.records)
            given == lastBatch.resp
            got == lastBatch.result
        IN  IF given.kind = "vectors" /\ Len(given.vectors) = n
            THEN /\ ~got.threw
                 /\ Len(got.records) = n
                 /\ \A k \in 1..n :
                       /\ got.records[k].val.embedding = given.vectors[k]
                       /\ got.records[k].pos = lastBatch.records[k].pos
                       /\ [got.records[k].val EXCEPT !.embedding = Undefined] =
                          [lastBatch.records[k].val EXCEPT !.embedding = Undefined]
                 /\ Len(got.outputBuffer) = Len(lastBatch.outputBuffer) + n
                 /\ SubSeq(got.outputBuffer, 1, Len(lastBatch.outputBuffer)) =
                       lastBatch.outputBuffer
                 /\ \A k \in 1..n :
                       got.outputBuffer[Len(lastBatch.outputBuffer) + k] =
                          Line(lastBatch.records[k].pos, "compact",
                               got.records[k].val)
            ELSE /\ got.threw
                 /\ got.records = lastBatch.records
                 /\ got.outputBuffer = lastBatch.outputBuffer

C10_Witness ==
    /\ lastBatch.called
    /\ lastBatch.resp.kind = "vectors"
    /\ Len(lastBatch.resp.vectors) = Len(lastBatch.records)
    /\ Len(lastBatch.records) >= 2
    /\ Len(lastBatch.outputBuffer) >= 1

\* C6: on an input whose records all carry a non-empty embedding, a run
\* (processFile or embed_jsonl.js) makes no provider call and writes every
\* record with its fields as they were; a run on that output writes the
\* same output again.
Vals(lines) == [i \in 1..Len(lines) |-> lines[i].val]

C6_EmbeddedInputIsFixedPoint ==
    /\ calls = <<>>
    /\ pc \notin {"awaitBatch", "awaitFinal", "awaitFetch"}
    /\ AppDone =>
          /\ Vals(Output) = Vals(LineIterator(fileContent))
          /\ generation > 1 => AsFile(Output) = prevOutput
    /\ (program = "cli" /\ pc = "finished") =>
          /\ Vals(outputStream) = Vals(LineIterator(fileContent))
          /\ generation > 1 => AsFile(outputStream) = prevOutput

C6_Witness ==
    /\ AppDone
    /\ generation = 2
    /\ Len(Output) >= 2

\* C7: with a provider that never fails, the calls of a run of processFile
\* are the embeddable records of the file cut into runs of BATCH_SIZE in
\* arrival order: every call carries BATCH_SIZE texts except possibly the
\* last, a finished run over n embeddable records has made ceil(n / 8)
\* calls, and 20 records give calls of 8, 8 and 4 texts.
EmbeddableLines ==
    SelectSeq(LineIterator(fileContent),
              LAMBDA l : /\ l.val.kind \notin {"invalid", "null"}
                         /\ Embeddable(GetEmbeddingText(JSONparse(l)), l.val))

Chunk(seq, j) ==
    SubSeq(seq, (j - 1) * 8 + 1,
           IF j * 8 < Len(seq) THEN j * 8 ELSE Len(seq))

C7_CallsAreRunsOfEight ==
    LET n == Len(EmbeddableLines)
        expected == (n + 7) \div 8
    IN  /\ Len(calls) <= expected
        /\ \A j \in 1..Len(calls) :
              /\ Len(calls[j].texts) = IF j < expected THEN 8 ELSE n - 8 * (j - 1)
              /\ calls[j].pos =
                    [k \in 1..Len(Chunk(EmbeddableLines, j)) |->
                        Chunk(EmbeddableLines, j)[k].pos]
              /\ calls[j].texts =
                    [k \in 1..Len(Chunk(EmbeddableLines, j)) |->
                        CleanText(GetEmbeddingText(
                            JSONparse(Chunk(EmbeddableLines, j)[k])))]
        /\ AppDone => Len(calls) = expected
        /\ (AppDone /\ n = 20) =>
              [j \in 1..Len(calls) |-> Len(calls[j].texts)] = <<8, 8, 4>>

C7_Witness ==
    /\ AppDone
    /\ Len(EmbeddableLines) = 20
    /\ Len(calls) = 3

C12_NoPartialOutputExposed ==
    program = "app" =>
        /\ fileItem.resultUrl.set <=> fileItem.status = "done"
        /\ fileItem.resultUrl.set =>
              /\ fileItem.resultUrl.lines = processedLines
              /\ lineIdx = Len(LineIterator(fileContent))
              /\ pc = "idle"

\* A failed run that had gathered output lines.
C12_Witness ==
    /\ program = "app"
    /\ fileItem.status = "error"
    /\ processedLines # <<>>

\* C13: a file whose status is processing has a progress between 0 and 99,
\* and a file has progress 100 if and only if its status is done.
C13_ProgressBelow100UntilDone ==
    program = "app" =>
        /\ fileItem.status = "processing" =>
              fileItem.progress >= 0 /\ fileItem.progress <= 99
        /\ fileItem.progress = 100 <=> fileItem.status = "done"

\* A run that has consumed all the bytes of the file and is not done yet.
C13_Witness ==
    /\ program = "app"
    /\ fileItem.status = "processing"
    /\ processedBytes = FileSize(fileContent)
    /\ fileItem.progress = 99

\* C14: when a run starts (status processing, nothing read yet) the file's
\* reported progress and processed count are zero, also when the run is a
\* re-run of a file whose previous run failed.
C14_CountersResetAtRunStart ==
    (program = "app" /\ fileItem.status = "processing" /\ lineIdx = 0) =>
        /\ fileItem.progress = 0
        /\ fileItem.processed = 0

\* C15: during a run the reported processed count and progress never
\* decrease from one update to the next, and once the status is done or
\* error the file's processed, progress and total never change again.
C15_CountersMonotoneThenFrozen ==
    [][program = "app" =>
          /\ fileItem.status = "processing" =>
                /\ fileItem'.processed >= fileItem.processed
                /\ fileItem'.progress >= fileItem.progress
          /\ fileItem.status \in {"done", "error"} =>
                /\ fileItem'.processed = fileItem.processed
                /\ fileItem'.progress = fileItem.progress
                /\ fileItem'.total = fileItem.total]_vars

\* C17: when the main loop of embed_jsonl.js has finished, the output file
\* holds exactly one line for every non-blank input line, in input order, and
\* a line that is not valid JSON is there unmodified.
C17_CliOneOutputLinePerInputLine ==
    (program = "cli" /\ pc = "finished") =>
        LET nonBlank == LineIterator(fileContent)
        IN  /\ Len(outputStream) = Len(nonBlank)
            /\ \A i \in 1..Len(nonBlank) :
                  /\ i <= Len(outputStream)
                  /\ outputStream[i].pos = nonBlank[i].pos
                  /\ nonBlank[i].val.kind = "invalid" =>
                        outputStream[i] = nonBlank[i]

\* C18: in embed_jsonl.js a failed provider call aborts the run: the failed
\* call is the last one, no later line is read, and the script does not
\* finish normally (batch_embed.sh does not report the file as done).
C18_CliFailureAbortsRun ==
    program = "cli" =>
        \A c \in 1..Len(calls) :
            calls[c].outcome = "failed" =>
                /\ c = Len(calls)
                /\ lineIdx = calls[c].pos[1]
                /\ pc # "finished"
                /\ BatchEmbedReport(CliExitCode) # "Done"

\* C16: getEmbeddingText returns dense_context when it is not empty, else
\* "Q: {question}\nA: {answer}" when both are not empty, else text when it is
\* not empty, else the empty string; it never throws and leaves the record
\* as it was, for every parsed JSON value (null and non-objects included),
\* and the versions of App.jsx and embed_jsonl.js return the same.
C16_GetEmbeddingTextPriority ==
    textCall.called =>
        LET val == textCall.record.val
            expected ==
                IF val.kind # "object" THEN <<>>
                ELSE IF val.dense_context # <<>> THEN val.dense_context
                ELSE IF val.question # <<>> /\ val.answer # <<>>
                     THEN <<"Q: ">> \o val.question \o <<"\n", "A: ">> \o val.answer
                ELSE val.text
        IN  /\ ~textCall.app.threw
            /\ ~textCall.cli.threw
            /\ textCall.app.value = expected
            /\ textCall.cli.value = expected
            /\ textCall.app = textCall.cli
            /\ textCall.after = textCall.record

\* C19: whatever the interleaving of the calls of embedTextsLocally (and of
\* fetchEmbedding in embed_jsonl.js), at most one model load is started, and
\* pipeline() called at most once, for a model identifier; every caller for
\* that identifier holds the same promise, the one that is cached.
C19_OneLoadPerModel ==
    /\ \A m \in ModelIds :
          Cardinality({ n \in 1..Len(pipelineLoads) :
                          pipelineLoads[n].modelId = m }) <= 1
    /\ \A c \in Callers :
          embedCalls[c].promise # 0 =>
              /\ pipelineLoads[embedCalls[c].promise].modelId = embedCalls[c].modelId
              /\ program = "embedder" =>
                    cachedPipelines[embedCalls[c].modelId] = embedCalls[c].promise
              /\ program = "cliEmbedder" =>
                    transformerPipelinePromise = embedCalls[c].promise
    /\ \A c, d \in Callers :
          (/\ embedCalls[c].promise # 0
           /\ embedCalls[d].promise # 0
           /\ embedCalls[c].modelId = embedCalls[d].modelId) =>
              embedCalls[c].promise = embedCalls[d].promise

\* Two calls of embedTextsLocally for the same model are under way, the
\* second made while the load started by the first was still pending.
C19_Witness ==
    /\ program = "embedder"
    /\ \E c, d \in Callers :
          /\ c # d
          /\ embedCalls[c].pc = "awaitLoad"
          /\ embedCalls[d].pc = "awaitLoad"
          /\ embedCalls[c].modelId = embedCalls[d].modelId
          /\ pipelineLoads[embedCalls[c].promise].state = "pending"

\* C20: a call of embedTextsLocally that returns gives one vector per text,
\* vector k being the one of the model for text k; a call in which the
\* extractor failed for a text has thrown and returns no list, whatever it
\* had gathered.
C20_EmbedAllOrNothing ==
    program = "embedder" =>
        \A c \in Callers :
            LET call == embedCalls[c]
            IN  /\ call.pc = "returned" =>
                      /\ ~call.failed
                      /\ Len(call.result) = Len(call.texts)
                      /\ \A k \in 1..Len(call.texts) :
                            call.result[k] =
                               [type |-> "array",
                                items |-> <<call.modelId,
                                            CleanTextLocal(call.texts[k])>>]
                /\ call.failed => call.pc = "threw"
                /\ call.pc = "threw" => call.result = <<>>

\* A call has thrown at its second text, after the vector of the first.
C20_Witness ==
    /\ program = "embedder"
    /\ \E c \in Callers :
          /\ embedCalls[c].pc = "threw"
          /\ embedCalls[c].failed
          /\ Len(embedCalls[c].embeddings) >= 1

\* C21: whatever the chunks the stream delivers the content in, lineIterator
\* yields the segments of the content between newlines that are not
\* whitespace-only, each once and in order (nothing for an empty file); while
\* it runs, what it has yielded is the beginning of that sequence.
RECURSIVE SegmentsFrom(_, _)
SegmentsFrom(text, start) ==
    LET newlines == { i \in start..Len(text) : text[i] = "\n" }
        stop == IF newlines = {} THEN Len(text) + 1
                ELSE CHOOSE i \in newlines : \A j \in newlines : i <= j
        segment == SubSeq(text, start, stop - 1)
        rest == IF stop > Len(text) THEN <<>> ELSE SegmentsFrom(text, stop + 1)
    IN  IF \E i \in 1..Len(segment) : segment[i] # " "
        THEN <<segment>> \o rest ELSE rest

C21_LineIteratorChunkingIndependent ==
    program = "lines" =>
        LET expected == SegmentsFrom(lineIter.content, 1)
        IN  /\ Len(lineIter.yielded) <= Len(expected)
            /\ lineIter.yielded = SubSeq(expected, 1, Len(lineIter.yielded))
            /\ lineIter.pc = "end" => lineIter.yielded = expected

\* The content came byte by byte, the last line without a newline after it
\* and a character of two bytes cut in the middle, after another line.
C21_Witness ==
    /\ program = "lines"
    /\ lineIter.pc = "end"
    /\ Len(lineIter.yielded) = 2
    /\ lineIter.reads = Len(Encode(lineIter.content))
    /\ lineIter.content[Len(lineIter.content)] = "e'"


(***************************************************************************)
(* The file list: sequencing, isolation, termination                       *)
(***************************************************************************)
Processing(fs) == { i \in 1..Len(fs) : fs[i].status = "processing" }

Outstanding(ts) == { t \in 1..Len(ts) : ts[t].pc \in {"awaitBatch", "awaitFinal"} }

\* C22: processing is sequential. At any time at most one file has status
\* processing, at most one provider call is outstanding and it belongs to
\* the file that is processing; a call is dispatched only when none is
\* outstanding, and a file is started only once no call is outstanding.
C22_ProcessingIsSequential ==
    /\ [](program = "queue" =>
            /\ Cardinality(Processing(files)) <= 1
            /\ Cardinality(Outstanding(tasks)) <= 1
            /\ \A t \in Outstanding(tasks) :
                  FileOf(files, TaskFile(t)).status = "processing")
    /\ [][program = "queue" =>
            /\ (Outstanding(tasks') \ Outstanding(tasks) # {} \/
                \E t \in Outstanding(tasks) \cap Outstanding(tasks') :
                    tasks'[t].lineIdx # tasks[t].lineIdx)
                  => Outstanding(tasks) = {}
            /\ (\E i \in Processing(files') :
                    \A j \in Processing(files) : files[j].id # files'[i].id)
                  => Outstanding(tasks') = {}]_vars

\* A second file is processing, after the first one reached its end, and
\* its provider call is outstanding.
C22_Witness ==
    /\ program = "queue"
    /\ Len(files) = 2
    /\ files[1].status \in {"done", "error"}
    /\ files[2].status = "processing"
    /\ Len(tasks) = 1
    /\ tasks[1].pending = <<1, 2>>
    /\ tasks[1].pc = "awaitFinal"

\* The ids of the files a processFile is running on.
Current(fs, ts) ==
    { ts[t].pending[ts[t].k] : t \in 1..Len(ts) }

\* C23: runs of different files are isolated. A step changes the entry
\* (status, progress, processed, total, resultUrl, error) of a file that
\* stays in the list only if processFile is running on that file before or
\* after the step; every other entry is left as it was.
C23_RunsAreIsolated ==
    [][program = "queue" =>
          \A i \in 1..Len(files) : \A j \in 1..Len(files') :
              (files[i].id = files'[j].id /\ files[i] # files'[j])
                  => files[i].id \in Current(files, tasks) \cup Current(files', tasks')]_vars

\* Two files processed one after the other, each with its own counters.
C23_Witness ==
    /\ program = "queue"
    /\ Len(files) = 2
    /\ files[1].status = "done" /\ files[1].processed = BATCH_SIZE + 1
    /\ files[2].status = "error" /\ files[2].processed = 0
    /\ files[2].resultUrl = NullUrl
    /\ ~isProcessing

\* File id is in the queue of a startProcessing under way and has not
\* reached its end.
Queued(id) ==
    \E t \in 1..Len(tasks) :
        \E j \in tasks[t].k..Len(tasks[t].pending) : tasks[t].pending[j] = id

Ended(id) ==
    \E i \in 1..Len(files) :
        files[i].id = id /\ files[i].status \in {"done", "error"}

\* C24: with finite files and a provider that answers every call, every
\* file of the queue of startProcessing reaches done or error, also the
\* files that come after a file that ended in error, and isProcessing
\* returns to false.
C24_QueueTerminates ==
    /\ \A id \in 1..MaxFiles : Queued(id) ~> Ended(id)
    /\ isProcessing ~> ~isProcessing

\* The first file of the queue ended in error and processFile runs on the
\* second one.
C24_Witness ==
    /\ program = "queue"
    /\ Len(tasks) = 1
    /\ tasks[1].pending = <<1, 2>>
    /\ tasks[1].k = 2
    /\ files[1].status = "error"
    /\ files[2].status = "processing"
    /\ isProcessing


(***************************************************************************)
(* The counts and the error of a finished run                              *)
(***************************************************************************)
\* The input lines processFile handles as records: JSON.parse and
\* getEmbeddingText return for them.
HandledAsRecords ==
    SelectSeq(LineIterator(fileContent),
              LAMBDA l : ~(JSONparseThrows(l) \/ GetEmbeddingTextThrows(JSONparse(l))))

\* C25: when a run of processFile reaches done, processed and total are
\* equal, and they are the number of input lines handled as records (passed
\* through or embedded), each counted once; the lines emitted verbatim
\* because they could not be handled are not counted.
C25_CountsAreRecordsHandled ==
    AppDone =>
        /\ fileItem.processed = fileItem.total
        /\ fileItem.processed = Len(HandledAsRecords)

\* A finished run with a line that does not parse, a record passed through
\* and a record embedded by a provider call.
C25_Witness ==
    /\ AppDone
    /\ Len(HandledAsRecords) < Len(LineIterator(fileContent))
    /\ Len(calls) >= 1
    /\ \E a \in 1..Len(HandledAsRecords) :
          Classify(JSONparse(HandledAsRecords[a]),
                   GetEmbeddingText(JSONparse(HandledAsRecords[a]))) # "batch"
    /\ fileItem.processed >= 2


\* C26: in every reachable state a file whose status is done has error =
\* null, and a file has an error only while its status is error: the
\* message of a failed run does not stay on the file after a later run of
\* it has succeeded.
C26_DoneHasNoError ==
    program = "app" =>
        /\ fileItem.status = "done" => fileItem.error = "null"
        /\ fileItem.error # "null" => fileItem.status = "error"


(***************************************************************************)
(* A model load that failed                                                *)
(***************************************************************************)
\* The call of caller c was made when the load cached for its model had
\* already failed.
MadeAfterFailure(c) == embedCalls[c].found

\* The call of caller c got to loadPipeline / getTransformerPipeline.
AsksForPipeline(c) == embedCalls[c].promise # 0

\* The call of caller c holds the failed load cached for its model, no
\* other load was started for that model, and the call waits for the load
\* or has ended with the load's error: embedTextsLocally has thrown,
\* fetchEmbedding has caught the error and returned null; the extractor
\* was never called.
FailsWithLoadError(c) ==
    LET call == embedCalls[c]
    IN  /\ call.promise # 0
        /\ pipelineLoads[call.promise].state = "rejected"
        /\ pipelineLoads[call.promise].modelId = call.modelId
        /\ \A n \in 1..Len(pipelineLoads) :
              pipelineLoads[n].modelId = call.modelId => n = call.promise
        /\ program = "embedder" => cachedPipelines[call.modelId] = call.promise
        /\ program = "cliEmbedder" => transformerPipelinePromise = call.promise
        /\ call.embeddings = <<>> /\ call.result = <<>> /\ ~call.failed
        /\ \/ call.pc = "awaitLoad"
           \/ program = "embedder" /\ call.pc = "threw"
           \/ program = "cliEmbedder" /\ call.pc = "returned" /\ call.isNull

\* C27 (amended): a failed model load is sticky. The rejected load stays
\* cached, so every later call that asks for the pipeline of that model
\* (embedTextsLocally with a non-empty array of texts, the CLI's
\* fetchEmbedding) ends with the load's error and no new load is started; a
\* later embedTextsLocally call with no texts returns [] as before.
C27_FailedLoadIsSticky ==
    \A c \in Callers :
        MadeAfterFailure(c) =>
            IF AsksForPipeline(c)
            THEN FailsWithLoadError(c)
            ELSE /\ program = "embedder"
                 /\ ~embedCalls[c].isArray \/ embedCalls[c].texts = <<>>
                 /\ embedCalls[c].pc = "returned"
                 /\ embedCalls[c].result = <<>> /\ ~embedCalls[c].isNull

\* A call of embedTextsLocally with texts, made after the load of its model
\* had failed, has thrown.
C27_Witness ==
    /\ program = "embedder"
    /\ \E c \in Callers :
          /\ MadeAfterFailure(c)
          /\ embedCalls[c].texts # <<>>
          /\ embedCalls[c].pc = "threw"

\* C27 (as stated): once the load of a model has failed, every later
\* embedTextsLocally call and every later CLI fetchEmbedding call for that
\* model fails with that error, and no new load is attempted.
C27_EveryLaterCallFails ==
    \A c \in Callers : MadeAfterFailure(c) => FailsWithLoadError(c)

====
